---- MODULE Spec2Model ----
(***************************************************************************)
(* A model of the CI-Standards review scripts: the diff-range computation, *)
(* the JSDoc block locator, the declaration/tag validation, the per-file   *)
(* scans and the two entry points (the diff-scoped PR scan and the CLI     *)
(* scan).                                                                  *)
(*                                                                         *)
(* Text is modelled at the level of lexemes: a source line is a sequence   *)
(* of lexemes (strings such as "/**", "private", "(", " "), and every      *)
(* regular expression of the scripts is an operator on such sequences.     *)
(* The lines used are written so that two neighbouring lexemes never read  *)
(* as a third one.  Indices into a file are the 0-based indices of the     *)
(* JavaScript; line numbers are 1-based, as in the scripts.                *)
(***************************************************************************)
EXTENDS Integers, Sequences, FiniteSets

VARIABLES
  arg,          \* the input of the function under check (a record)
  ret,          \* <<>> before the call, <<value>> once the function returned
  files,        \* an entry point's file list (git's answer), in order
  entry,        \* which entry point runs: "pr" or "cli"
  pc,           \* the entry point's position
  fileIdx,      \* 1-based index of the file the current loop is at
  allComments,  \* the violations collected so far, in order
  scanned,      \* indices of the files whose scan ran to its end
  crashed       \* TRUE once an exception left the entry point uncaught

vars == <<arg, ret, files, entry, pc, fileIdx, allComments, scanned, crashed>>

mainVars == <<files, entry, pc, fileIdx, allComments, scanned, crashed>>

\* The entry-point variables of a specification that checks one function.
MainIdle ==
  /\ files = <<>>
  /\ entry = "none"
  /\ pc = "idle"
  /\ fileIdx = 0
  /\ allComments = <<>>
  /\ scanned = {}
  /\ crashed = FALSE

Min(a, b) == IF a < b THEN a ELSE b

(***************************************************************************)
(* Bounds of the model.                                                    *)
(***************************************************************************)
MaxStart == 3      \* largest new-file start line written in a hunk header
MaxCount == 2      \* largest new-file line count written in a hunk header
MaxDiffLines == 3  \* longest diff text, in lines

(***************************************************************************)
(* getChangedLineRanges: the unified diff of one file.                     *)
(*                                                                         *)
(* A diff line is [prefix, hunk]: prefix is what the line starts with      *)
(* ("@@", "+", "+++", "-", "\\" or "" for anything else) and hunk is the   *)
(* match of the hunk-header pattern on the line, [start, count], with      *)
(* count = Absent when the ",d" part is not written and NoHunk when the    *)
(* pattern does not match.  The pattern is not anchored, so it also        *)
(* matches an added line whose text holds a header.                        *)
(***************************************************************************)
Absent == -1
NoHunk == [start |-> -1, count |-> -1]

\* The headers git writes: "+c" and "+c,d" with c >= 1, and "+0,0" for a new
\* side that is empty.
HunkMatches ==
  {[start |-> c, count |-> d] : c \in 1..MaxStart, d \in {Absent} \cup 0..MaxCount}
    \cup {[start |-> 0, count |-> 0]}

DiffLines ==
  {[prefix |-> "@@", hunk |-> h] : h \in HunkMatches}
    \cup {[prefix |-> p, hunk |-> NoHunk] : p \in {"+", "+++", "-", "\\", ""}}
    \cup {[prefix |-> "+", hunk |-> [start |-> 1, count |-> 1]]}

\* execSync either throws or returns the diff text.
DiffResults ==
  {[ok |-> FALSE, lines |-> <<>>]}
    \cup {[ok |-> TRUE, lines |-> t] : t \in UNION {[1..n -> DiffLines] : n \in 0..MaxDiffLines}}

hunkMatch(line) == line.hunk

\* parseInt(hunkMatch[2]) || 1 : NaN (not written) and 0 are both falsy.
hunkCount(m2) == IF m2 = Absent \/ m2 = 0 THEN 1 ELSE m2

hunkRange(m) == [start |-> m.start, end |-> m.start + hunkCount(m.count) - 1]

advancesCursor(line) == line.prefix \notin {"-", "\\", "+++"}

\* The loop with the range taken from the running cursor instead of the header.
RECURSIVE RangesLoopCursor(_, _, _, _)
RangesLoopCursor(lines, i, currentLine, ranges) ==
  IF i > Len(lines) THEN [ranges |-> ranges, currentLine |-> currentLine]
  ELSE IF hunkMatch(lines[i]) # NoHunk
    THEN RangesLoopCursor(lines, i + 1, hunkMatch(lines[i]).start,
           Append(ranges, [start |-> currentLine,
                           end |-> currentLine + hunkCount(hunkMatch(lines[i]).count) - 1]))
    ELSE RangesLoopCursor(lines, i + 1,
           IF advancesCursor(lines[i]) THEN currentLine + 1 ELSE currentLine, ranges)

\* for (const line of lines) { ... } with its two locals.
RECURSIVE RangesLoop(_, _, _, _)
RangesLoop(lines, i, currentLine, ranges) ==
  IF i > Len(lines) THEN [ranges |-> ranges, currentLine |-> currentLine]
  ELSE IF hunkMatch(lines[i]) # NoHunk
    THEN RangesLoop(lines, i + 1, hunkMatch(lines[i]).start,
           Append(ranges, hunkRange(hunkMatch(lines[i]))))
    ELSE RangesLoop(lines, i + 1,
           IF advancesCursor(lines[i]) THEN currentLine + 1 ELSE currentLine, ranges)

getChangedLineRangesLeftover(diff) ==
  IF ~diff.ok THEN <<[start |-> 1, end |-> 1]>> ELSE RangesLoop(diff.lines, 1, 0, <<>>).ranges

getChangedLineRanges(diff) ==
  IF ~diff.ok THEN <<>> ELSE RangesLoop(diff.lines, 1, 0, <<>>).ranges

(***************************************************************************)
(* SpecDiff: getChangedLineRanges applied to every diff of the bounds.     *)
(***************************************************************************)
InitDiff ==
  /\ arg \in {[fn |-> "getChangedLineRanges", diff |-> d] : d \in DiffResults}
  /\ ret = <<>>
  /\ MainIdle

CallGetChangedLineRanges ==
  /\ arg.fn = "getChangedLineRanges"
  /\ ret = <<>>
  /\ ret' = <<getChangedLineRanges(arg.diff)>>
  /\ UNCHANGED <<arg, mainVars>>

NextDiff == CallGetChangedLineRanges

SpecDiff == InitDiff /\ [][NextDiff]_vars

DiffReturned == arg.fn = "getChangedLineRanges" /\ ret # <<>>

\* The indices of the diff lines on which the header pattern matches, in order.
RECURSIVE HeaderIdx(_, _)
HeaderIdx(lines, i) ==
  IF i > Len(lines) THEN <<>>
  ELSE IF lines[i].hunk # NoHunk THEN <<i>> \o HeaderIdx(lines, i + 1)
  ELSE HeaderIdx(lines, i + 1)

\* C3: every hunk header "+c[,d]" yields exactly the range {c, c+d-1} for every
\* written d >= 0 (d = 0 included), and a range of length 1 when d is omitted.
C3_RangeIsStartPlusCount ==
  DiffReturned /\ arg.diff.ok =>
    LET hs == HeaderIdx(arg.diff.lines, 1) IN
      /\ Len(ret[1]) = Len(hs)
      /\ \A k \in 1..Len(hs) :
           LET m == arg.diff.lines[hs[k]].hunk IN
             ret[1][k] = [start |-> m.start,
                          end |-> IF m.count = Absent THEN m.start
                                  ELSE m.start + m.count - 1]

\* C4: every range returned has start >= 1 and end >= start, for every header
\* git can write ("+0,0" and "+c,0" included).
C4_RangeWellFormed ==
  DiffReturned =>
    \A k \in 1..Len(ret[1]) : ret[1][k].start >= 1 /\ ret[1][k].end >= ret[1][k].start

MaxDocLines == 4   \* longest file handed to getJsDocInfo, in lines

WS == {" "}                                   \* \s within a line
DecoratorWords == {"@Input"}                  \* @ + capital + \w+

NonWsIdx(line) == {i \in 1..Len(line) : line[i] \notin WS}
FirstNonWs(line) ==
  IF NonWsIdx(line) = {} THEN 0
  ELSE CHOOSE i \in NonWsIdx(line) : \A k \in NonWsIdx(line) : i <= k
LastNonWs(line) ==
  IF NonWsIdx(line) = {} THEN 0
  ELSE CHOOSE i \in NonWsIdx(line) : \A k \in NonWsIdx(line) : i >= k
\* The first lexeme after position i that is not white space, "" if none.
NextNonWs(line, i) ==
  LET after == {k \in NonWsIdx(line) : k > i} IN
    IF after = {} THEN "" ELSE line[CHOOSE k \in after : \A m \in after : k <= m]
FirstLexeme(line) == IF NonWsIdx(line) = {} THEN "" ELSE line[FirstNonWs(line)]
LastLexeme(line) == IF NonWsIdx(line) = {} THEN "" ELSE line[LastNonWs(line)]

\* lines[j].trim() === ''
isBlank(line) == NonWsIdx(line) = {}
\* /^\s*@[A-Z]\w+\s*[\({]/
isDecorator(line) ==
  /\ FirstLexeme(line) \in DecoratorWords
  /\ NextNonWs(line, FirstNonWs(line)) \in {"(", "{"}
\* /^\s*@\w+/
isAtWord(line) ==
  FirstLexeme(line) \in DecoratorWords
     \cup {"@param", "@returns", "@return", "@public", "@private", "@protected"}
\* /^\s*\/\*\*.*\*\/\s*$/
isSingleLineJsDoc(line) ==
  /\ FirstLexeme(line) = "/**"
  /\ LastLexeme(line) = "*/"
\* /^\s*\*\/\s*$/
isBlockEnd(line) == Cardinality(NonWsIdx(line)) = 1 /\ FirstLexeme(line) = "*/"
\* /^\s*\*\s*/ : the line begins with a star
isStarLine(line) == FirstLexeme(line) \in {"*", "*/"}
\* /^\s*\/\*\*/
isJsDocStart(line) == FirstLexeme(line) = "/**"
\* /^\s*\/\*/
isCommentStart(line) == FirstLexeme(line) \in {"/*", "/**"}
\* /\*\/\s*$/
endsComment(line) == LastLexeme(line) = "*/"

\* The lines getJsDocInfo is checked on.
DocLineTexts ==
  { <<>>,                                  \* an empty line
    <<"@Input", "(", ")">>,                \* a decorator
    <<"@public">>,                         \* a bare tag line
    <<"/**", " ", "d", " ", "*/">>,        \* a one-line block
    <<"/**">>,                             \* a block opening
    <<"/*">>,                              \* a plain comment opening
    <<" ", "*/">>,                         \* a block closing
    <<" ", "*", " ", "d">>,                \* a line beginning with a star
    <<"x">> }                              \* ordinary code (or a line comment)

(***************************************************************************)
(* getJsDocInfo.  lines is the file, index the 0-based index of the        *)
(* declaration; content is the sequence of the block's lines (the empty    *)
(* sequence for the empty string).                                         *)
(***************************************************************************)
LineAt(lines, j) == lines[j + 1]

NoJsDocStale == [exists |-> FALSE, isSingleLine |-> FALSE, startIdx |-> 0, endIdx |-> 0, content |-> <<>>]
NoJsDoc == [exists |-> FALSE, isSingleLine |-> FALSE, startIdx |-> -1, endIdx |-> -1, content |-> <<>>]

\* lines.slice(from, to + 1)
Slice(lines, from, to) == SubSeq(lines, from + 1, Min(to + 1, Len(lines)))

RECURSIVE skipBlank(_, _)
skipBlank(lines, j) ==
  IF j >= 0 /\ isBlank(LineAt(lines, j)) THEN skipBlank(lines, j - 1) ELSE j

RECURSIVE skipDecorators(_, _)
skipDecorators(lines, j) ==
  IF j >= 0 /\ isDecorator(LineAt(lines, j)) THEN skipDecorators(lines, j - 1) ELSE j

RECURSIVE skipBlankAndAtWords(_, _)
skipBlankAndAtWords(lines, j) ==
  IF j >= 0 /\ (isBlank(LineAt(lines, j)) \/ isAtWord(LineAt(lines, j)))
  THEN skipBlankAndAtWords(lines, j - 1) ELSE j

\* The walk that does not stop at a plain comment opening.
RECURSIVE walkBackPastPlain(_, _, _)
walkBackPastPlain(lines, j, endIdx) ==
  IF j < 0 THEN NoJsDoc
  ELSE IF isJsDocStart(LineAt(lines, j))
    THEN [exists |-> TRUE, isSingleLine |-> FALSE, startIdx |-> j, endIdx |-> endIdx,
          content |-> Slice(lines, j, endIdx)]
  ELSE walkBackPastPlain(lines, j - 1, endIdx)

\* while (j >= 0) { ... j--; } of the "end or middle of a block" branch
RECURSIVE walkBack(_, _, _)
walkBack(lines, j, endIdx) ==
  IF j < 0 THEN NoJsDoc
  ELSE IF isJsDocStart(LineAt(lines, j))
    THEN [exists |-> TRUE, isSingleLine |-> FALSE, startIdx |-> j, endIdx |-> endIdx,
          content |-> Slice(lines, j, endIdx)]
  ELSE IF isCommentStart(LineAt(lines, j)) /\ ~isJsDocStart(LineAt(lines, j)) THEN NoJsDoc
  ELSE walkBack(lines, j - 1, endIdx)

\* while (endIdx < lines.length && !/\*\/\s*$/.test(lines[endIdx])) endIdx++;
RECURSIVE scanForward(_, _)
scanForward(lines, endIdx) ==
  IF endIdx < Len(lines) /\ ~endsComment(LineAt(lines, endIdx))
  THEN scanForward(lines, endIdx + 1) ELSE endIdx

\* What getJsDocInfo does once j stands on the first line it did not skip.
classifyAbove(lines, j) ==
  IF j < 0 THEN NoJsDoc
  ELSE LET line == LineAt(lines, j) IN
    IF isSingleLineJsDoc(line)
      THEN [exists |-> TRUE, isSingleLine |-> TRUE, startIdx |-> j, endIdx |-> j,
            content |-> <<line>>]
    ELSE IF isBlockEnd(line) \/ isStarLine(line) THEN walkBack(lines, j, j)
    ELSE IF isJsDocStart(line)
      THEN IF isSingleLineJsDoc(line)
             THEN [exists |-> TRUE, isSingleLine |-> TRUE, startIdx |-> j, endIdx |-> j,
                   content |-> <<line>>]
             ELSE LET endIdx == scanForward(lines, j) IN
                    [exists |-> TRUE, isSingleLine |-> FALSE, startIdx |-> j,
                     endIdx |-> endIdx, content |-> Slice(lines, j, endIdx)]
    ELSE NoJsDoc

getJsDocInfo(lines, index) ==
  classifyAbove(lines, skipBlank(lines, skipDecorators(lines, skipBlank(lines, index - 1))))

\* yeassu.js: blank lines and lines starting with @word, in any order.
getJsDocInfoLegacy(lines, index) ==
  classifyAbove(lines, skipBlankAndAtWords(lines, index - 1))

(***************************************************************************)
(* SpecDoc: getJsDocInfo (both copies) on every file of the bounds, the    *)
(* declaration being its last line or the one before (the function reads   *)
(* the lines above the declaration and, looking for the end of a block     *)
(* left open, those from there on).                                        *)
(***************************************************************************)
InitDoc ==
  /\ arg \in {[fn |-> f, lines |-> ls, index |-> Len(ls) - back] :
                f \in {"getJsDocInfo", "getJsDocInfoLegacy"},
                ls \in UNION {[1..n -> DocLineTexts] : n \in 1..MaxDocLines}, back \in 1..2}
  /\ arg.index >= 0
  /\ ret = <<>>
  /\ MainIdle

CallGetJsDocInfo ==
  /\ arg.fn = "getJsDocInfo"
  /\ ret = <<>>
  /\ ret' = <<getJsDocInfo(arg.lines, arg.index)>>
  /\ UNCHANGED <<arg, mainVars>>

CallGetJsDocInfoLegacy ==
  /\ arg.fn = "getJsDocInfoLegacy"
  /\ ret = <<>>
  /\ ret' = <<getJsDocInfoLegacy(arg.lines, arg.index)>>
  /\ UNCHANGED <<arg, mainVars>>

NextDoc == CallGetJsDocInfo \/ CallGetJsDocInfoLegacy

SpecDoc == InitDoc /\ [][NextDoc]_vars

DocReturned == ret # <<>>

\* C8: exists = false implies startIdx = endIdx = -1 and empty content;
\* isSingleLine = true implies exists = true and startIdx = endIdx.
C8_JsDocInfoShape ==
  DocReturned /\ arg.fn = "getJsDocInfo" =>
    /\ (~ret[1].exists =>
          ret[1].startIdx = -1 /\ ret[1].endIdx = -1 /\ ret[1].content = <<>>)
    /\ (ret[1].isSingleLine => ret[1].exists /\ ret[1].startIdx = ret[1].endIdx)

\* A block opens above the declaration and is still not found.
C8_Witness ==
  /\ DocReturned /\ arg.fn = "getJsDocInfo"
  /\ ~ret[1].exists
  /\ \E k \in 0..(arg.index - 1) : isJsDocStart(LineAt(arg.lines, k))

\* The index of the line that closes the block opening at line s (the first
\* line from s on that holds a comment end), Len(lines) if none does.
RECURSIVE closingLine(_, _)
closingLine(lines, s) ==
  IF s >= Len(lines) THEN Len(lines)
  ELSE IF \E i \in 1..Len(LineAt(lines, s)) : LineAt(lines, s)[i] = "*/" THEN s
  ELSE closingLine(lines, s + 1)

\* C9: when a block is reported (exists), every line strictly between the
\* block's closing line and the declaration is blank or a decorator, whatever
\* the separating line looks like.
C9_SeparatedBlockIsAbsent ==
  DocReturned /\ ret[1].exists =>
    \A k \in (closingLine(arg.lines, ret[1].startIdx) + 1)..(arg.index - 1) :
      \/ isBlank(LineAt(arg.lines, k))
      \/ isDecorator(LineAt(arg.lines, k))
      \/ (arg.fn = "getJsDocInfoLegacy" /\ isAtWord(LineAt(arg.lines, k)))

\* C23: a reported block lies above the declaration and inside the file:
\* 0 <= startIdx <= endIdx < index and endIdx < lines.length.
C23_BlockLiesAboveDeclaration ==
  DocReturned /\ ret[1].exists =>
    /\ 0 <= ret[1].startIdx /\ ret[1].startIdx <= ret[1].endIdx
    /\ ret[1].endIdx < arg.index
    /\ ret[1].endIdx < Len(arg.lines)

\* Line j is where the scan described by C24 stops: going up from index - 1
\* over blank lines down to p1, then over decorators down to p2, then over
\* blank lines down to j (-1 when the top of the file is passed).
stopsAt(lines, index, j) ==
  LET allIn(from, to, P(_)) == \A k \in from..to : P(LineAt(lines, k))
      endsRun(k, P(_)) == k = -1 \/ ~P(LineAt(lines, k))
  IN \E p1 \in -1..(index - 1) : \E p2 \in -1..p1 :
       /\ j <= p2
       /\ allIn(p1 + 1, index - 1, isBlank) /\ endsRun(p1, isBlank)
       /\ allIn(p2 + 1, p1, isDecorator) /\ endsRun(p2, isDecorator)
       /\ allIn(j + 1, p2, isBlank) /\ endsRun(j, isBlank)

\* Lines s..e are a block that opens with a line of its own, closes with a
\* line of its own and ends in a tag line.
isTaggedBlock(lines, s, e) ==
  /\ 0 <= s /\ s + 1 < e /\ e < Len(lines)
  /\ LineAt(lines, s) = <<"/**">> /\ isBlockEnd(LineAt(lines, e))
  /\ LineAt(lines, e - 1) = <<"@public">>
  /\ \A k \in (s + 1)..(e - 1) :
       LineAt(lines, k) = <<"@public">>
         \/ (isStarLine(LineAt(lines, k)) /\ ~isBlockEnd(LineAt(lines, k)))

\* C24: getJsDocInfo classifies the line reached by skipping blank lines,
\* then decorators, then blank lines; a tag line of a block is not skipped,
\* and a multi-line block ending in tag lines is returned whole, from its
\* opening line to its closing line.
C24_SkipsThenClassifies ==
  DocReturned =>
    /\ \A j \in -1..(arg.index - 1) :
         stopsAt(arg.lines, arg.index, j) => ret[1] = classifyAbove(arg.lines, j)
    /\ \A s \in 0..(arg.index - 1) : \A e \in s..(arg.index - 1) :
         isTaggedBlock(arg.lines, s, e) /\ stopsAt(arg.lines, arg.index, e) =>
           /\ ret[1].exists /\ ret[1].startIdx = s /\ ret[1].endIdx = e
           /\ ret[1].content = Slice(arg.lines, s, e)

\* The comment openings (lines beginning with /* or /**) from line j up.
openingsAbove(lines, j) == {k \in 0..j : isCommentStart(LineAt(lines, k))}

\* C25: when the line the scan stops at closes a block or begins with a star,
\* the block found is the one of the nearest line above that begins with
\* /**; if a line beginning with a plain /* comes first, or no line opens a
\* comment, no block is found.
C25_WalksBackToOpening ==
  DocReturned /\ arg.fn = "getJsDocInfo" =>
    \A j \in 0..(arg.index - 1) :
      /\ stopsAt(arg.lines, arg.index, j)
      /\ isBlockEnd(LineAt(arg.lines, j)) \/ isStarLine(LineAt(arg.lines, j))
      => LET opens == openingsAbove(arg.lines, j)
             k == CHOOSE o \in opens : \A q \in opens : q <= o
         IN IF opens # {} /\ isJsDocStart(LineAt(arg.lines, k))
              THEN ret[1] = [exists |-> TRUE, isSingleLine |-> FALSE, startIdx |-> k,
                             endIdx |-> j, content |-> Slice(arg.lines, k, j)]
              ELSE ret[1] = NoJsDoc

\* The walk went up from a closing line past a plain comment opening, with a
\* documentation opening further up, and found no block.
C25_Witness ==
  /\ DocReturned /\ arg.fn = "getJsDocInfo" /\ ~ret[1].exists
  /\ \E j \in 2..(arg.index - 1) :
       /\ stopsAt(arg.lines, arg.index, j) /\ isBlockEnd(LineAt(arg.lines, j))
       /\ \E k \in 1..(j - 1) :
            /\ LineAt(arg.lines, k) = <<"/*">>
            /\ isJsDocStart(LineAt(arg.lines, k - 1))

(***************************************************************************)
(* Declarations and documentation tags.                                    *)
(*                                                                         *)
(* A method declaration is described by its visibility, its parameters     *)
(* and its return type, and written out as the line of lexemes the         *)
(* scripts read; a documentation block is described by the set of tags it  *)
(* holds and written out as a multi-line block.                            *)
(***************************************************************************)
MaxParams == 2     \* most parameters of a declaration
MaxTags == 4       \* most tags of a documentation block

Modifiers == {"public", "private", "protected"}
\* Lexemes made of \w characters only.
WordLexemes == {"f", "x", "X", "y", "a", "b", "d", "T", "void"} \cup Modifiers
\* Parameter names: two plain identifiers that differ in letter case only, and
\* one holding a dollar sign.
ParamNames == {"x", "X", "$e"}
ParamForms ==
  {[name |-> n, destructured |-> FALSE] : n \in ParamNames}
    \cup {[name |-> "", destructured |-> TRUE]}
\* Methods returning T with every list of parameters, and methods returning
\* void without parameters.
Declarations ==
  {[visibility |-> v, params |-> ps, returns |-> r] :
     v \in {""} \cup Modifiers,
     ps \in UNION {[1..n -> ParamForms] : n \in 0..MaxParams},
     r \in {"T"}}
    \cup {[visibility |-> v, params |-> <<>>, returns |-> "void"] : v \in {""} \cup Modifiers}

RenderParam(p) ==
  IF p.destructured THEN <<"{", " ", "a", ",", " ", "b", " ", "}", ":", " ", "T">>
  ELSE <<p.name, ":", " ", "T">>

RECURSIVE RenderParams(_, _)
RenderParams(ps, i) ==
  IF i > Len(ps) THEN <<>>
  ELSE RenderParam(ps[i]) \o (IF i < Len(ps) THEN <<",", " ">> ELSE <<>>)
         \o RenderParams(ps, i + 1)

\* e.g.  private f(x: T, $e: T): T {
RenderDecl(d) ==
  (IF d.visibility = "" THEN <<>> ELSE <<d.visibility, " ">>)
    \o <<"f", "(">> \o RenderParams(d.params, 1) \o <<")", ":", " ", d.returns, " ", "{">>

\* The tags a block may hold, in the order they are written.
AllTags ==
  << [kind |-> "param", name |-> "x", type |-> "T"],
     [kind |-> "param", name |-> "x", type |-> ""],
     [kind |-> "param", name |-> "$e", type |-> "T"],
     [kind |-> "param", name |-> "y", type |-> "T"],
     [kind |-> "returns", name |-> "", type |-> ""],
     [kind |-> "public", name |-> "", type |-> ""],
     [kind |-> "private", name |-> "", type |-> ""],
     [kind |-> "protected", name |-> "", type |-> ""],
     [kind |-> "returns", name |-> "", type |-> "glued"] >>

RenderTag(t) ==
  IF t.kind = "param"
    THEN <<" ", "*", " ", "@param", " ">>
           \o (IF t.type = "" THEN <<>> ELSE <<"{", t.type, "}", " ">>)
           \o <<t.name, " ", "-", " ", "d">>
  ELSE IF t.kind = "returns" /\ t.type = "glued"
    THEN <<" ", "*", " ", "@returns", "{", "T", "}", " ", "d">>   \* @returns{T} d
  ELSE IF t.kind = "returns" THEN <<" ", "*", " ", "@returns", " ", "{", "T", "}", " ", "d">>
  ELSE <<" ", "*", " ", "@" \o t.kind>>

RECURSIVE RenderTags(_, _)
RenderTags(S, i) ==
  IF i > Len(AllTags) THEN <<>>
  ELSE (IF AllTags[i] \in S THEN <<RenderTag(AllTags[i])>> ELSE <<>>) \o RenderTags(S, i + 1)

(***************************************************************************)
(* The validation helpers of check-code-standards.js.  A block's content   *)
(* is its lines joined by "\n".                                            *)
(***************************************************************************)
NL == "\n"
WSNL == WS \cup {NL}

RECURSIVE Join(_, _)
Join(content, i) ==
  IF i > Len(content) THEN <<>>
  ELSE content[i] \o (IF i < Len(content) THEN <<NL>> ELSE <<>>) \o Join(content, i + 1)

Flat(content) == Join(content, 1)

\* /@returns?\s|\@returns?\s*$/m  (the m flag: $ is the end of a line)
hasReturnsTag(jsDocContent) ==
  LET t == Flat(jsDocContent) IN
    \E i \in 1..Len(t) :
      /\ t[i] \in {"@returns", "@return"}
      /\ (i = Len(t) \/ t[i + 1] \in WSNL)

\* /^\s*(public|private|protected)\s/ ; "" stands for null
getAccessModifier(line) ==
  LET f == FirstNonWs(line) IN
    IF f > 0 /\ line[f] \in Modifiers /\ f < Len(line) /\ line[f + 1] \in WS
    THEN line[f] ELSE ""

\* /@public\b/ and its two siblings
hasTag(jsDocContent, tag) ==
  LET t == Flat(jsDocContent) IN
    \E i \in 1..Len(t) : t[i] = tag /\ (i = Len(t) \/ t[i + 1] \notin WordLexemes)

checkAccessModifierTagAny(jsDocContent, actualModifier) ==
  IF actualModifier = "" THEN [valid |-> TRUE, message |-> ""]
  ELSE IF ~(\E m \in Modifiers : hasTag(jsDocContent, "@" \o m))
    THEN [valid |-> FALSE, message |-> "missing"]
  ELSE [valid |-> TRUE, message |-> ""]

checkAccessModifierTag(jsDocContent, actualModifier) ==
  IF actualModifier = "" THEN [valid |-> TRUE, message |-> ""]
  ELSE LET tagCount == Cardinality({m \in Modifiers : hasTag(jsDocContent, "@" \o m)}) IN
    IF tagCount = 0 THEN [valid |-> FALSE, message |-> "missing"]
    ELSE IF tagCount > 1 THEN [valid |-> FALSE, message |-> "multiple"]
    ELSE IF ~hasTag(jsDocContent, "@" \o actualModifier)
      THEN [valid |-> FALSE, message |-> "mismatch"]
    ELSE [valid |-> TRUE, message |-> ""]

Trim(seq) == IF NonWsIdx(seq) = {} THEN <<>> ELSE SubSeq(seq, FirstNonWs(seq), LastNonWs(seq))

\* The least element of a non-empty set of integers.
Least(S) == CHOOSE i \in S : \A k \in S : i <= k
\* The index of the first occurrence of lexeme c in t after position i, 0 if none.
IndexAfter(t, i, c) ==
  LET S == {k \in (i + 1)..Len(t) : t[k] = c} IN IF S = {} THEN 0 ELSE Least(S)
\* The index of the first lexeme after position i that is not white space
\* (a new line included), Len(t) + 1 if none.
SkipWs(t, i) ==
  LET S == {k \in (i + 1)..Len(t) : t[k] \notin WSNL} IN IF S = {} THEN Len(t) + 1 ELSE Least(S)

\* The split of paramsStr on the commas at depth 0.
RECURSIVE splitParams(_, _, _, _, _)
splitParams(str, i, depth, current, params) ==
  IF i > Len(str)
    THEN IF Trim(current) # <<>> THEN Append(params, Trim(current)) ELSE params
  ELSE IF str[i] \in {"<", "(", "{"}
    THEN splitParams(str, i + 1, depth + 1, Append(current, str[i]), params)
  ELSE IF str[i] \in {">", ")", "}"}
    THEN splitParams(str, i + 1, depth - 1, Append(current, str[i]), params)
  ELSE IF str[i] = "," /\ depth = 0
    THEN splitParams(str, i + 1, depth, <<>>,
           IF Trim(current) # <<>> THEN Append(params, Trim(current)) ELSE params)
  ELSE splitParams(str, i + 1, depth, Append(current, str[i]), params)

\* parts[0].trim().replace(/^\?/, '').replace(/\?$/, '')
stripOptional(name) ==
  LET a == IF name # <<>> /\ Head(name) = "?" THEN Tail(name) ELSE name IN
    IF a # <<>> /\ a[Len(a)] = "?" THEN SubSeq(a, 1, Len(a) - 1) ELSE a

\* The run of lexemes of p from position i up to the next white space: (\S+)
RECURSIVE nonSpaceRun(_, _)
nonSpaceRun(p, i) ==
  IF i > Len(p) \/ p[i] \in WS THEN <<>> ELSE <<p[i]>> \o nonSpaceRun(p, i + 1)

\* One segment to {name, type}; a name is the sequence of its lexemes.
paramOf(p) ==
  IF Head(p) = "{"
    THEN \* p.match(/\}\s*:\s*(\S+)/)
      LET S == {k \in 1..Len(p) :
                  /\ p[k] = "}"
                  /\ SkipWs(p, k) <= Len(p) /\ p[SkipWs(p, k)] = ":"
                  /\ SkipWs(p, SkipWs(p, k)) <= Len(p)} IN
        [name |-> <<"destructured">>,
         type |-> IF S = {} THEN <<"unknown">>
                  ELSE nonSpaceRun(p, SkipWs(p, SkipWs(p, Least(S))))]
  ELSE LET c1 == IndexAfter(p, 0, ":")
           c2 == IF c1 = 0 THEN 0 ELSE IndexAfter(p, c1, ":")
           part0 == IF c1 = 0 THEN p ELSE SubSeq(p, 1, c1 - 1)
           part1 == IF c1 = 0 THEN <<>>
                    ELSE SubSeq(p, c1 + 1, IF c2 = 0 THEN Len(p) ELSE c2 - 1)
           eq == IndexAfter(part1, 0, "=")
       IN [name |-> stripOptional(Trim(part0)),
           type |-> IF part1 = <<>> THEN <<"unknown">>
                    ELSE Trim(IF eq = 0 THEN part1 ELSE SubSeq(part1, 1, eq - 1))]

extractParams(line) ==
  LET open == IF \E k \in 1..Len(line) : line[k] = "(" /\ IndexAfter(line, k, ")") > 0
              THEN Least({k \in 1..Len(line) : line[k] = "(" /\ IndexAfter(line, k, ")") > 0})
              ELSE 0
      paramsStr == IF open = 0 THEN <<>>
                   ELSE Trim(SubSeq(line, open + 1, IndexAfter(line, open, ")") - 1))
      segs == splitParams(paramsStr, 1, 0, <<>>, <<>>)
  IN IF open = 0 \/ paramsStr = <<>> THEN <<>>
     ELSE SelectSeq([k \in 1..Len(segs) |-> paramOf(segs[k])], LAMBDA q : q.name # <<>>)

(***************************************************************************)
(* checkParamTags.  The parameter's name is pasted into a pattern,         *)
(*   new RegExp(`@param\s+(\{[^}]*\})?\s*\[?${param.name}\]?[\s\-]`, 'i'), *)
(* so a name is read as a pattern: a "$" in it is the end-of-input         *)
(* assertion, after which nothing can match.                               *)
(***************************************************************************)
Lower(w) == IF w = "X" THEN "x" ELSE IF w = "Y" THEN "y" ELSE w

\* The name, read as a pattern with flag i, matches t from position k on.
nameMatchesAt(t, k, name) ==
  /\ k + Len(name) - 1 <= Len(t)
  /\ \A i \in 1..Len(name) :
       \* a name holding $ is read as a pattern and never matches
       name[i] # "$e" /\ Lower(name[i]) = Lower(t[k + i - 1])

\* \[?NAME\]?[\s\-] from position c on
nameTailAt(t, c, name) ==
  LET c1 == IF c <= Len(t) /\ t[c] = "[" THEN c + 1 ELSE c
      e == c1 + Len(name)
      e1 == IF e <= Len(t) /\ t[e] = "]" THEN e + 1 ELSE e
  IN /\ c <= Len(t)
     /\ nameMatchesAt(t, c1, name)
     /\ e1 <= Len(t) /\ t[e1] \in WSNL \cup {"-"}

NoMatch == [matched |-> FALSE, group |-> <<>>]

\* The match of the pattern that starts at the "@param" at position i:
\* group is paramMatch[1], <<>> when the braces group took no part.
paramMatchAt(t, i, name) ==
  IF ~(t[i] = "@param" /\ i < Len(t) /\ t[i + 1] \in WSNL) THEN NoMatch
  ELSE LET a == SkipWs(t, i)
           b == IF a <= Len(t) /\ t[a] = "{" THEN IndexAfter(t, a, "}") ELSE 0
       IN IF b > 0 /\ nameTailAt(t, SkipWs(t, b), name)
            THEN [matched |-> TRUE, group |-> SubSeq(t, a, b)]
          ELSE IF nameTailAt(t, a, name) THEN [matched |-> TRUE, group |-> <<>>]
          ELSE NoMatch

\* jsDocContent.match(paramNameRegex): the leftmost match
paramMatch(t, name) ==
  LET S == {i \in 1..Len(t) : paramMatchAt(t, i, name).matched} IN
    IF S = {} THEN NoMatch ELSE paramMatchAt(t, Least(S), name)

\* /@param\s*(?:\{[^}]*\})?\s*\[?(\w+)\]?/g at the "@param" at position i:
\* <<the name captured>>, or <<>> when the pattern does not match there.
docParamAt(t, i) ==
  LET a == SkipWs(t, i)
      b == IF a <= Len(t) /\ t[a] = "{" THEN IndexAfter(t, a, "}") ELSE 0
      word(c) == LET c1 == IF c <= Len(t) /\ t[c] = "[" THEN c + 1 ELSE c IN
                   IF c1 <= Len(t) /\ t[c1] \in WordLexemes THEN <<t[c1]>> ELSE <<>>
  IN IF t[i] # "@param" THEN <<>>
     ELSE IF b > 0 /\ word(SkipWs(t, b)) # <<>> THEN word(SkipWs(t, b))
     ELSE word(a)

RECURSIVE jsDocParamNames(_, _)
jsDocParamNames(t, i) ==
  IF i > Len(t) THEN <<>> ELSE docParamAt(t, i) \o jsDocParamNames(t, i + 1)

\* for (const param of params) { ... }
RECURSIVE missingErrors(_, _, _)
missingErrors(t, params, i) ==
  IF i > Len(params) THEN <<>>
  ELSE (IF params[i].name = <<"destructured">> THEN <<>>
        ELSE LET m == paramMatch(t, params[i].name) IN
          IF ~m.matched THEN <<[kind |-> "missingParam", name |-> params[i].name]>>
          ELSE IF ~(m.group # <<>> /\ Len(m.group) > 2)
            THEN <<[kind |-> "missingType", name |-> params[i].name]>>
          ELSE <<>>)
       \o missingErrors(t, params, i + 1)

\* for (const docParam of jsDocParamNames) { ... }
RECURSIVE extraErrors(_, _, _)
extraErrors(docNames, actualNames, i) ==
  IF i > Len(docNames) THEN <<>>
  ELSE (IF <<docNames[i]>> \notin actualNames
          THEN <<[kind |-> "extraParam", name |-> <<docNames[i]>>]>> ELSE <<>>)
       \o extraErrors(docNames, actualNames, i + 1)

checkParamTags(jsDocContent, params) ==
  IF Len(params) = 0 THEN [valid |-> TRUE, errors |-> <<>>]
  ELSE LET t == Flat(jsDocContent)
           actual == {params[k].name : k \in {k \in 1..Len(params) :
                                                params[k].name # <<"destructured">>}}
           errors == missingErrors(t, params, 1)
                       \o extraErrors(jsDocParamNames(t, 1), actual, 1)
       IN [valid |-> errors = <<>>, errors |-> errors]

\* The tag rules with the first failing rule ending the check.
docErrorsFirstRule(line, jsDocContent) ==
  LET accessCheck == checkAccessModifierTag(jsDocContent, getAccessModifier(line)) IN
    IF ~hasReturnsTag(jsDocContent) THEN <<[kind |-> "missingReturns", name |-> <<>>]>>
    ELSE IF ~accessCheck.valid THEN <<[kind |-> accessCheck.message, name |-> <<>>]>>
    ELSE checkParamTags(jsDocContent, extractParams(line)).errors

\* checkFile, a method with a block: the errors of the three tag rules, in
\* the order they are pushed.
docErrors(line, jsDocContent) ==
  (IF ~hasReturnsTag(jsDocContent) THEN <<[kind |-> "missingReturns", name |-> <<>>]>> ELSE <<>>)
    \o (LET accessCheck == checkAccessModifierTag(jsDocContent, getAccessModifier(line)) IN
          IF ~accessCheck.valid THEN <<[kind |-> accessCheck.message, name |-> <<>>]>> ELSE <<>>)
    \o checkParamTags(jsDocContent, extractParams(line)).errors

(***************************************************************************)
(* SpecValidate: the three tag rules on every declaration and block of     *)
(* the bounds.                                                             *)
(***************************************************************************)
InitValidate ==
  /\ arg \in {[fn |-> "docErrors", decl |-> d, tags |-> S] :
                d \in Declarations,
                S \in {T \in SUBSET {AllTags[i] : i \in 1..Len(AllTags)} :
                         /\ Cardinality(T) <= MaxTags
                         \* the glued return tag is the only tag of its block
                         /\ (\E t \in T : t.type = "glued") => Cardinality(T) = 1}}
  /\ ret = <<>>
  /\ MainIdle

CallDocErrors ==
  /\ arg.fn = "docErrors"
  /\ ret = <<>>
  /\ ret' = <<docErrors(RenderDecl(arg.decl),
                         << <<"/**">>, <<" ", "*", " ", "d">> >>
                           \o RenderTags(arg.tags, 1) \o << <<" ", "*/">> >>)>>
  /\ UNCHANGED <<arg, mainVars>>

NextValidate == CallDocErrors

SpecValidate == InitValidate /\ [][NextValidate]_vars

\* The names of the declaration's parameters that are not destructured.
PlainNames(d) ==
  {d.params[k].name : k \in {k \in 1..Len(d.params) : ~d.params[k].destructured}}

\* The block holds a typed @param tag for each plain parameter and no other
\* @param tag, a return tag, and exactly the visibility tag of the declaration.
FullyDocumented(d, S) ==
  /\ {t \in S : t.kind = "param"} =
       {[kind |-> "param", name |-> n, type |-> "T"] : n \in PlainNames(d)}
  /\ \E t \in S : t.kind = "returns" /\ t.type = ""   \* written  @returns {T} d
  /\ {t.kind : t \in {t \in S : t.kind \in Modifiers}} =
       (IF d.visibility = "" THEN {} ELSE {d.visibility})

\* C10: a fully and correctly documented method yields zero errors.
C10_FullyDocumentedNoErrors ==
  ret # <<>> /\ arg.fn = "docErrors" /\ FullyDocumented(arg.decl, arg.tags) => ret[1] = <<>>

\* The declaration with the name of its k-th parameter replaced.
Renamed(d, k, n) == [d EXCEPT !.params[k].name = n]
\* No two parameters of the declaration share a name.
DistinctNames(d) ==
  \A i, j \in 1..Len(d.params) :
    i # j /\ ~d.params[i].destructured /\ ~d.params[j].destructured
      => d.params[i].name # d.params[j].name

\* C11: a declaration that differs from a fully documented one in the name of
\* one plain parameter yields exactly two errors, a missing @param for the new
\* name and an extra @param for the old one.
C11_RenameYieldsTwoErrors ==
  ret # <<>> /\ arg.fn = "docErrors" =>
    \A k \in 1..Len(arg.decl.params) : \A old \in ParamNames :
      /\ ~arg.decl.params[k].destructured
      /\ old # arg.decl.params[k].name
      /\ DistinctNames(arg.decl) /\ DistinctNames(Renamed(arg.decl, k, old))
      /\ FullyDocumented(Renamed(arg.decl, k, old), arg.tags)
      => /\ Len(ret[1]) = 2
         /\ {ret[1][1], ret[1][2]} =
              { [kind |-> "missingParam", name |-> <<arg.decl.params[k].name>>],
                [kind |-> "extraParam", name |-> <<old>>] }

\* The visibility tags of a block, and the visibility errors of a result.
VisibilityTags(S) == {t.kind : t \in {t \in S : t.kind \in Modifiers}}
AccessMessages == {"missing", "multiple", "mismatch"}
accessErrors(errors) == SelectSeq(errors, LAMBDA e : e.kind \in AccessMessages)

\* C12: with visibility v on the line: no visibility tag is a missing-tag
\* error, two or more are a multiple-tags error, one other than v is a
\* mismatch error, the one equal to v is no error; without a visibility
\* keyword the rule reports nothing.
C12_VisibilityTagRule ==
  ret # <<>> /\ arg.fn = "docErrors" =>
    LET v == arg.decl.visibility
        T == VisibilityTags(arg.tags)
        msgs == accessErrors(ret[1])
    IN /\ (v = "" => msgs = <<>>)
       /\ (v # "" /\ T = {} => msgs = <<[kind |-> "missing", name |-> <<>>]>>)
       /\ (v # "" /\ Cardinality(T) >= 2 => msgs = <<[kind |-> "multiple", name |-> <<>>]>>)
       /\ (v # "" /\ Cardinality(T) = 1 /\ T # {v} =>
             msgs = <<[kind |-> "mismatch", name |-> <<>>]>>)
       /\ (v # "" /\ T = {v} => msgs = <<>>)

\* A protected method under a block whose only visibility tag is @private.
C12_Witness ==
  /\ ret # <<>> /\ arg.fn = "docErrors"
  /\ arg.decl.visibility = "protected" /\ VisibilityTags(arg.tags) = {"private"}
  /\ accessErrors(ret[1]) = <<[kind |-> "mismatch", name |-> <<>>]>>

ParamKinds == {"missingParam", "missingType", "extraParam"}

\* C14: a method whose parameters are all destructured yields no
\* parameter-tag error, whatever @param tags its block holds.
C14_AllDestructuredNoParamErrors ==
  ret # <<>> /\ arg.fn = "docErrors"
    /\ Len(arg.decl.params) > 0 /\ PlainNames(arg.decl) = {} =>
      \A i \in 1..Len(ret[1]) : ret[1][i].kind \notin ParamKinds

\* The errors of a result that have the given kind and name.
errorsOf(errors, kind, n) == SelectSeq(errors, LAMBDA e : e.kind = kind /\ e.name = <<n>>)
\* The @param tags of a block that name n.
tagsNaming(S, n) == {t \in S : t.kind = "param" /\ t.name = n}

\* C26: each plain parameter gets exactly one missing-tag error when no
\* @param tag names it, exactly one missing-type error when the tags naming
\* it carry no type, and never both; each @param tag naming no declared
\* parameter gets one extra-tag error.
C26_ParamTagErrors ==
  ret # <<>> /\ arg.fn = "docErrors" /\ DistinctNames(arg.decl) =>
    /\ \A n \in PlainNames(arg.decl) :
         LET named == tagsNaming(arg.tags, n)
             missing == Len(errorsOf(ret[1], "missingParam", n))
             untyped == Len(errorsOf(ret[1], "missingType", n))
         IN /\ missing = (IF named = {} THEN 1 ELSE 0)
            /\ named # {} /\ (\A t \in named : t.type = "") => untyped = 1
            /\ (\A t \in named : t.type # "") => untyped = 0
            /\ missing + untyped <= 1
    /\ \A n \in {t.name : t \in {t \in arg.tags : t.kind = "param"}} \ PlainNames(arg.decl) :
         Len(errorsOf(ret[1], "extraParam", n)) = Cardinality(tagsNaming(arg.tags, n))

\* C28: checkFile reports the missing-return-tag error for a documented
\* method if and only if its block holds no return tag, whatever the return
\* type of the declaration, void included.
C28_ReturnTagRule ==
  ret # <<>> /\ arg.fn = "docErrors" =>
    Len(SelectSeq(ret[1], LAMBDA e : e.kind = "missingReturns")) =
      (IF \E t \in arg.tags : t.kind = "returns" THEN 0 ELSE 1)

(***************************************************************************)
(* SpecParams: extractParams on declaration lines whose parameter text is  *)
(* a list of segments of the forms below.                                  *)
(***************************************************************************)
MaxSegments == 3   \* most parameters of a declaration line

\* A parameter as it is written, with the name it declares.
SegmentForms ==
  { \* x: T
    [name |-> <<"x">>, text |-> <<"x", ":", " ", "T">>],
    \* y: M<a, b>
    [name |-> <<"y">>, text |-> <<"y", ":", " ", "M", "<", "a", ",", " ", "b", ">">>],
    \* X: { a: T, b: T }
    [name |-> <<"X">>,
     text |-> <<"X", ":", " ", "{", " ", "a", ":", " ", "T", ",", " ", "b", ":", " ", "T",
                " ", "}">>],
    \* { a, b }: T
    [name |-> <<"destructured">>, text |-> RenderParam([name |-> "", destructured |-> TRUE])],
    \* d: T = a > b
    [name |-> <<"d">>,
     text |-> <<"d", ":", " ", "T", " ", "=", " ", "a", " ", ">", " ", "b">>] }

RECURSIVE RenderSegments(_, _)
RenderSegments(segs, i) ==
  IF i > Len(segs) THEN <<>>
  ELSE segs[i].text \o (IF i < Len(segs) THEN <<",", " ">> ELSE <<>>)
         \o RenderSegments(segs, i + 1)

InitParams ==
  /\ arg \in {[fn |-> "extractParams", segs |-> g] :
                g \in UNION {[1..n -> SegmentForms] : n \in 0..MaxSegments}}
  /\ ret = <<>>
  /\ MainIdle

\* extractParams on  f(<the segments>): T {
CallExtractParams ==
  /\ arg.fn = "extractParams"
  /\ ret = <<>>
  /\ ret' = <<extractParams(<<"f", "(">> \o RenderSegments(arg.segs, 1)
                               \o <<")", ":", " ", "T", " ", "{">>)>>
  /\ UNCHANGED <<arg, mainVars>>

NextParams == CallExtractParams

SpecParams == InitParams /\ [][NextParams]_vars

\* C30: extractParams returns one parameter per parameter written, in the
\* order written, a segment that begins with "{" under the name
\* "destructured": commas inside <...> or {...} split nothing, and the comma
\* after a complete parameter splits whatever the parameters before it hold.
C30_OneParamPerSegment ==
  ret # <<>> /\ arg.fn = "extractParams" =>
    [k \in 1..Len(ret[1]) |-> ret[1][k].name] = [k \in 1..Len(arg.segs) |-> arg.segs[k].name]

(***************************************************************************)
(* The diff-scoped scan of one file (generate-pr-comments.js).             *)
(***************************************************************************)
MaxScanLines == 8  \* length of the files handed to the scan, in lines
NearMargin == 5    \* isNearChangedLine: lines after a range's end

isLineChangedFromStart(lineNum, changedRanges) ==
  \E k \in 1..Len(changedRanges) : lineNum >= changedRanges[k].start

isLineChanged(lineNum, changedRanges) ==
  \E k \in 1..Len(changedRanges) :
    lineNum >= changedRanges[k].start /\ lineNum <= changedRanges[k].end

isNearChangedLine(lineNum, changedRanges) ==
  \E k \in 1..Len(changedRanges) :
    lineNum >= changedRanges[k].start /\ lineNum <= changedRanges[k].end + NearMargin

\* line.includes(lexeme)
Includes(line, lx) == \E i \in 1..Len(line) : line[i] = lx

FactoryWords == {"computed", "signal", "input", "output", "viewChild"}
\* /=\s*(computed|signal|input|output|viewChild)\s*[<(]/
isAngularReactive(line) ==
  \E i \in 1..Len(line) :
    /\ line[i] = "="
    /\ SkipWs(line, i) <= Len(line) /\ line[SkipWs(line, i)] \in FactoryWords
    /\ SkipWs(line, SkipWs(line, i)) <= Len(line)
    /\ line[SkipWs(line, SkipWs(line, i))] \in {"<", "("}

\* Lexemes made of [a-zA-Z0-9_] only, among those of the scanned lines.
NameLexemes == WordLexemes \cup FactoryWords \cup {"readonly", "s", "debugger", "TODO", "FIXME"}
\* [A-Za-z0-9_[\]|<>]
TypeLexemes == NameLexemes \cup {"[", "]", "|", "<", ">"}

\* The position after the longest run of type lexemes that starts at i.
RECURSIVE typeRunEnd(_, _)
typeRunEnd(line, i) ==
  IF i <= Len(line) /\ line[i] \in TypeLexemes THEN typeRunEnd(line, i + 1) ELSE i

\* The position of the first lexeme from i on that is not white space.
FromWs(line, i) == SkipWs(line, i - 1)

\* [a-zA-Z0-9_]+\s*\([^)]*\)\s*:\s*[A-Za-z0-9_[\]|<>]+[ \t]*\{  with the name at n
methodTailAt(line, n) ==
  /\ n <= Len(line) /\ line[n] \in NameLexemes
  /\ LET open == SkipWs(line, n) IN
       /\ open <= Len(line) /\ line[open] = "("
       /\ IndexAfter(line, open, ")") > 0
       /\ LET colon == SkipWs(line, IndexAfter(line, open, ")")) IN
            /\ colon <= Len(line) /\ line[colon] = ":"
            /\ LET t0 == SkipWs(line, colon) IN
                 /\ t0 <= Len(line) /\ line[t0] \in TypeLexemes
                 /\ FromWs(line, typeRunEnd(line, t0)) <= Len(line)
                 /\ line[FromWs(line, typeRunEnd(line, t0))] = "{"

\* /^[ \t]*(public|private|protected)?[ \t]*[a-zA-Z0-9_]+\s*\([^)]*\)\s*:\s*[A-Za-z0-9_[\]|<>]+[ \t]*\{/
methodRegex(line) ==
  LET f == FirstNonWs(line) IN
    /\ f > 0
    /\ \/ methodTailAt(line, f)
       \/ line[f] \in Modifiers /\ methodTailAt(line, SkipWs(line, f))

\* /:\s*[A-Za-z0-9_[\]|<>]+/
hasReturnTypePattern(line) ==
  \E i \in 1..Len(line) :
    line[i] = ":" /\ SkipWs(line, i) <= Len(line) /\ line[SkipWs(line, i)] \in TypeLexemes

Comment(lineNum, kind, name) == [line |-> lineNum, kind |-> kind, name |-> name]

\* comments.push for each error of a list, at one line
RECURSIVE asComments(_, _, _)
asComments(lineNum, errors, i) ==
  IF i > Len(errors) THEN <<>>
  ELSE <<Comment(lineNum, errors[i].kind, errors[i].name)>> \o asComments(lineNum, errors, i + 1)

detectorCommentsFirstOnly(line, lineNum) ==
  IF Includes(line, "console.log") THEN <<Comment(lineNum, "console.log", <<>>)>>
  ELSE IF Includes(line, "debugger") THEN <<Comment(lineNum, "debugger", <<>>)>>
  ELSE IF Includes(line, "TODO") THEN <<Comment(lineNum, "TODO", <<>>)>>
  ELSE IF Includes(line, "FIXME") THEN <<Comment(lineNum, "FIXME", <<>>)>>
  ELSE <<>>

\* The four literal detectors, in their order.
detectorComments(line, lineNum) ==
  (IF Includes(line, "console.log") THEN <<Comment(lineNum, "console.log", <<>>)>> ELSE <<>>)
    \o (IF Includes(line, "debugger") THEN <<Comment(lineNum, "debugger", <<>>)>> ELSE <<>>)
    \o (IF Includes(line, "TODO") THEN <<Comment(lineNum, "TODO", <<>>)>> ELSE <<>>)
    \o (IF Includes(line, "FIXME") THEN <<Comment(lineNum, "FIXME", <<>>)>> ELSE <<>>)

\* The tag rules as the PR scan applies them: no @returns needed with ": void".
prDocErrors(line, jsDocContent) ==
  \* line.includes(': void') exempts the method from the @returns check
  (IF ~hasReturnsTag(jsDocContent)
        /\ ~\E i \in 1..(Len(line) - 2) :
              line[i] = ":" /\ line[i + 1] = " " /\ line[i + 2] = "void"
     THEN <<[kind |-> "missingReturns", name |-> <<>>]>> ELSE <<>>)
    \o (LET accessCheck == checkAccessModifierTag(jsDocContent, getAccessModifier(line)) IN
          IF ~accessCheck.valid THEN <<[kind |-> accessCheck.message, name |-> <<>>]>> ELSE <<>>)
    \o checkParamTags(jsDocContent, extractParams(line)).errors

\* The declaration part of the callback, for a line that passed its guard.
prMethodComments(lines, index) ==
  LET line == LineAt(lines, index)
      lineNum == index + 1
      jsDocInfo == getJsDocInfo(lines, index)
  IN (IF ~jsDocInfo.exists THEN <<Comment(lineNum, "missingJsDoc", <<>>)>>
      ELSE asComments(lineNum, prDocErrors(line, jsDocInfo.content), 1))
     \o (IF getAccessModifier(line) # "" /\ ~hasReturnTypePattern(line)
           THEN <<Comment(lineNum, "missingReturnType", <<>>)>> ELSE <<>>)

\* The callback of lines.forEach for one line.
prLineComments(lines, index, changedRanges) ==
  LET line == LineAt(lines, index)
      lineNum == index + 1
  IN IF ~isLineChanged(lineNum, changedRanges) THEN <<>>
     ELSE detectorComments(line, lineNum)
            \o (IF /\ methodRegex(line)
                   /\ ~isAngularReactive(line)
                   /\ isNearChangedLine(lineNum, changedRanges)
                THEN prMethodComments(lines, index) ELSE <<>>)

RECURSIVE prScanFrom(_, _, _)
prScanFrom(lines, index, changedRanges) ==
  IF index >= Len(lines) THEN <<>>
  ELSE prLineComments(lines, index, changedRanges) \o prScanFrom(lines, index + 1, changedRanges)

\* file is [readable, lines]: readFileSync throws on an unreadable file, inside
\* the try, before any comment is pushed.
checkTypeScriptFile(file, changedRanges) ==
  IF ~file.readable THEN <<>> ELSE prScanFrom(file.lines, 0, changedRanges)

\* violations is what checkCSSFileForTailwind(file) returned: a sequence of
\* [line, severity].
RECURSIVE checkCSSFile(_, _, _)
checkCSSFile(violations, changedRanges, i) ==
  IF i > Len(violations) THEN <<>>
  ELSE (IF isLineChanged(violations[i].line, changedRanges)
          THEN <<Comment(violations[i].line, "css", <<>>)>> ELSE <<>>)
       \o checkCSSFile(violations, changedRanges, i + 1)

(***************************************************************************)
(* SpecScan: the scan of one file on every file and diff of the bounds.    *)
(***************************************************************************)
PrivateMethod ==
  RenderDecl([visibility |-> "private",
              params |-> <<[name |-> "x", destructured |-> FALSE]>>, returns |-> "T"])

ScanLineTexts ==
  { <<"x">>,
    <<"console.log", "(", "x", ")">>,
    <<"debugger", ";", " ", "//", " ", "TODO", " ", "FIXME">>,
    PrivateMethod,
    <<"f", "(", ")", ":", " ", "void", " ", "{">>,
    <<"/**", " ", "d", " ", "*/">>,
    <<"/**", " ", "d", " ", "@param", " ", "{", "T", "}", " ", "x", " ", "-", " ", "d", " ",
      "@returns", " ", "d", " ", "@private", " ", "*/">>,
    \* a method whose body starts on its line:  f(): T { s = signal(x)
    <<"f", "(", ")", ":", " ", "T", " ", "{", " ", "s", " ", "=", " ", "signal", "(", "x", ")">> }

HeaderLine(h) == [prefix |-> "@@", hunk |-> h]
\* Diffs of one hunk, and of two one-line hunks.
ScanDiffs ==
  { <<HeaderLine(h)>> : h \in HunkMatches }
    \cup { <<HeaderLine([start |-> c1, count |-> Absent]),
             HeaderLine([start |-> c2, count |-> Absent])>> :
             c1 \in 1..MaxStart, c2 \in 1..MaxStart }

\* The end-to-end scenario: 20 lines, the hunk @@ -5,0 +5,3 @@, console.log(x)
\* on line 6, an undocumented private method on line 10.
ScenarioFile ==
  [i \in 1..20 |-> IF i = 6 THEN <<"console.log", "(", "x", ")">>
                   ELSE IF i = 10 THEN PrivateMethod ELSE <<"x">>]
ScenarioDiff == <<HeaderLine([start |-> 5, count |-> 3])>>

InitScan ==
  /\ arg \in
       {[fn |-> "checkTypeScriptFile", lines |-> ls, violations |-> <<>>, diff |-> d] :
          \* files of MaxScanLines lines, at most two of them other than plain code
          ls \in {[i \in 1..MaxScanLines |->
                     IF i = p THEN a ELSE IF i = q THEN b ELSE <<"x">>] :
                   p \in 1..MaxScanLines, q \in 1..MaxScanLines,
                   a \in ScanLineTexts, b \in ScanLineTexts},
          d \in ScanDiffs}
       \cup {[fn |-> "checkTypeScriptFile", lines |-> ScenarioFile, violations |-> <<>>,
              diff |-> ScenarioDiff]}
       \cup {[fn |-> "checkCSSFile", lines |-> <<>>, violations |-> v, diff |-> d] :
          v \in UNION {[1..n -> {[line |-> l, severity |-> "warning"] : l \in 1..MaxScanLines}] :
                        n \in 0..2},
          d \in ScanDiffs}
  /\ ret = <<>>
  /\ MainIdle

ArgRanges == getChangedLineRanges([ok |-> TRUE, lines |-> arg.diff])

CallCheckTypeScriptFile ==
  /\ arg.fn = "checkTypeScriptFile"
  /\ ret = <<>>
  /\ ret' = <<checkTypeScriptFile([readable |-> TRUE, lines |-> arg.lines], ArgRanges)>>
  /\ UNCHANGED <<arg, mainVars>>

CallCheckCSSFile ==
  /\ arg.fn = "checkCSSFile"
  /\ ret = <<>>
  /\ ret' = <<checkCSSFile(arg.violations, ArgRanges, 1)>>
  /\ UNCHANGED <<arg, mainVars>>

NextScan == CallCheckTypeScriptFile \/ CallCheckCSSFile

SpecScan == InitScan /\ [][NextScan]_vars

\* C1: a method-declaration line within start..end+5 of some range is
\* documentation-checked even when it lies in no range (an undocumented one
\* gets its missing-documentation violation); and the scenario returns exactly
\* the debug violation at line 6 and the missing-documentation one at line 10.
C1_NearLinesAreDocChecked ==
  ret # <<>> /\ arg.fn = "checkTypeScriptFile" =>
    /\ \A n \in 1..Len(arg.lines) :
         /\ methodRegex(arg.lines[n]) /\ ~isAngularReactive(arg.lines[n])
         /\ isNearChangedLine(n, ArgRanges)
         /\ ~getJsDocInfo(arg.lines, n - 1).exists
         => \E k \in 1..Len(ret[1]) : ret[1][k] = Comment(n, "missingJsDoc", <<>>)
    /\ (arg.lines = ScenarioFile /\ arg.diff = ScenarioDiff =>
          ret[1] = <<Comment(6, "console.log", <<>>), Comment(10, "missingJsDoc", <<>>)>>)

DetectorKinds == {"console.log", "debugger", "TODO", "FIXME", "css"}

reactiveTailAt(line, n, factory, requiredOk) ==
  /\ n <= Len(line) /\ line[n] \in NameLexemes \cup ParamNames
  /\ LET eq == SkipWs(line, n) IN
       /\ eq <= Len(line) /\ line[eq] = "="
       /\ LET fac == SkipWs(line, eq) IN
            /\ fac <= Len(line) /\ line[fac] = factory
            /\ \/ SkipWs(line, fac) <= Len(line) /\ line[SkipWs(line, fac)] \in {"<", "("}
               \/ /\ requiredOk
                  /\ fac < Len(line) /\ line[fac + 1] = ".required"
                  /\ SkipWs(line, fac + 1) <= Len(line)
                  /\ line[SkipWs(line, fac + 1)] \in {"<", "("}

reactiveRegex(line, factory, readonlyOk, requiredOk) ==
  LET f == FirstNonWs(line) IN
    /\ f > 0 /\ f < Len(line)
    /\ line[f] \in Modifiers /\ line[f + 1] \in WS
    /\ LET n == SkipWs(line, f) IN
         \/ reactiveTailAt(line, n, factory, requiredOk)
         \/ /\ readonlyOk
            /\ n < Len(line) /\ line[n] = "readonly" /\ line[n + 1] \in WS
            /\ reactiveTailAt(line, SkipWs(line, n), factory, requiredOk)

\* The five property patterns of checkFile, in their order:
\* [factory, propertyType, readonlyOk, requiredOk].
ReactiveKinds ==
  << [factory |-> "computed", propertyType |-> "Computed property", readonlyOk |-> TRUE, requiredOk |-> FALSE],
     [factory |-> "signal", propertyType |-> "Signal", readonlyOk |-> TRUE, requiredOk |-> FALSE],
     [factory |-> "input", propertyType |-> "Input", readonlyOk |-> FALSE, requiredOk |-> TRUE],
     [factory |-> "output", propertyType |-> "Output", readonlyOk |-> FALSE, requiredOk |-> FALSE],
     [factory |-> "viewChild", propertyType |-> "ViewChild", readonlyOk |-> TRUE, requiredOk |-> TRUE] >>

\* jsDocInfo.content.replace(/\/\*\*|\*\//g, '').trim()
stripDelimiters(content) ==
  LET t == Flat(content) IN Trim(SelectSeq(t, LAMBDA lx : lx \notin {"/**", "*/"}))

checkSingleLineJsDocFormatOnly(jsDocInfo, propertyType) ==
  IF ~jsDocInfo.isSingleLine
    THEN <<[kind |-> "notSingleLine", name |-> propertyType]>> ELSE <<>>

checkSingleLineJsDoc(jsDocInfo, propertyType) ==
  (IF ~jsDocInfo.isSingleLine
     THEN <<[kind |-> "notSingleLine", name |-> propertyType]>> ELSE <<>>)
    \o (IF jsDocInfo.isSingleLine /\ stripDelimiters(jsDocInfo.content) = <<>>
          THEN <<[kind |-> "emptyJsDoc", name |-> propertyType]>> ELSE <<>>)

\* /(public|private|protected)/.test(line)
hasAccessWord(line) == \E i \in 1..Len(line) : line[i] \in Modifiers

cliMethodViolationsAlways(lines, i) ==
  LET line == LineAt(lines, i)
      jsDocInfo == getJsDocInfo(lines, i)
  IN (IF ~jsDocInfo.exists THEN <<Comment(i + 1, "missingJsDoc", <<>>)>> ELSE <<>>)
     \o asComments(i + 1, docErrors(line, jsDocInfo.content), 1)

\* The method branch of checkFile for line i (0-based).
cliMethodViolations(lines, i) ==
  LET line == LineAt(lines, i)
      jsDocInfo == getJsDocInfo(lines, i)
  IN (IF ~jsDocInfo.exists THEN <<Comment(i + 1, "missingJsDoc", <<>>)>>
      ELSE asComments(i + 1, docErrors(line, jsDocInfo.content), 1))
     \o (IF getAccessModifier(line) = ""
           THEN <<Comment(i + 1, "missingAccessModifier", <<>>)>> ELSE <<>>)
     \o (IF ~hasReturnTypePattern(line)
           THEN <<Comment(i + 1, "missingReturnType", <<>>)>> ELSE <<>>)

\* One property branch of checkFile for line i (0-based).
cliReactiveViolations(lines, i, k) ==
  LET line == LineAt(lines, i)
      jsDocInfo == getJsDocInfo(lines, i)
      propertyType == ReactiveKinds[k].propertyType
  IN (IF ~jsDocInfo.exists THEN <<Comment(i + 1, "missingJsDoc", propertyType)>>
      ELSE asComments(i + 1, checkSingleLineJsDoc(jsDocInfo, propertyType), 1))
     \o (IF ~hasAccessWord(line)
           THEN <<Comment(i + 1, "missingAccessModifier", propertyType)>> ELSE <<>>)

RECURSIVE cliReactiveFrom(_, _, _)
cliReactiveFrom(lines, i, k) ==
  IF k > Len(ReactiveKinds) THEN <<>>
  ELSE (IF reactiveRegex(LineAt(lines, i), ReactiveKinds[k].factory,
                         ReactiveKinds[k].readonlyOk, ReactiveKinds[k].requiredOk)
          THEN cliReactiveViolations(lines, i, k) ELSE <<>>)
       \o cliReactiveFrom(lines, i, k + 1)

RECURSIVE cliScanFrom(_, _)
cliScanFrom(lines, i) ==
  IF i >= Len(lines) THEN <<>>
  ELSE (IF methodRegex(LineAt(lines, i)) THEN cliMethodViolations(lines, i) ELSE <<>>)
       \o cliReactiveFrom(lines, i, 1)
       \o cliScanFrom(lines, i + 1)

\* file is [readable, lines]; readFileSync is called outside any try, so an
\* unreadable file makes checkFile throw.
checkFile(file) ==
  IF ~file.readable THEN [threw |-> TRUE, violations |-> <<>>]
  ELSE [threw |-> FALSE, violations |-> cliScanFrom(file.lines, 0)]

(***************************************************************************)
(* checkTypeScriptFile of the second generator (src/unnamed/part_001):     *)
(* one pass for the literal detectors, a second one for the declarations.  *)
(***************************************************************************)
\* /^[ \t]*(public|private|protected)?[ \t]*(readonly)?[ \t]*[a-zA-Z0-9_]+\s*=\s*FACTORY(\.required)?\s*[<(]/
\* (the patterns for input and output have no readonly group)
enhReactiveRegex(line, factory, readonlyOk, requiredOk) ==
  LET f == FirstNonWs(line)
      tailAt(n) == n <= Len(line) /\ line[n] \in NameLexemes
                     /\ reactiveTailAt(line, n, factory, requiredOk)
  IN /\ f > 0
     /\ \/ tailAt(f)
        \/ line[f] \in Modifiers /\ tailAt(SkipWs(line, f))
        \/ readonlyOk /\ line[f] = "readonly" /\ tailAt(SkipWs(line, f))
        \/ /\ readonlyOk /\ line[f] \in Modifiers
           /\ SkipWs(line, f) <= Len(line) /\ line[SkipWs(line, f)] = "readonly"
           /\ tailAt(SkipWs(line, SkipWs(line, f)))

\* One property branch of the second pass for line index (0-based); only the
\* computed branch (k = 1) tests for an empty description.
enhReactiveComments(lines, index, k) ==
  LET line == LineAt(lines, index)
      jsDocInfo == getJsDocInfo(lines, index)
      propertyType == ReactiveKinds[k].propertyType
  IN (IF ~jsDocInfo.exists THEN <<Comment(index + 1, "missingJsDoc", propertyType)>>
      ELSE IF ~jsDocInfo.isSingleLine
        THEN <<Comment(index + 1, "notSingleLine", propertyType)>>
      ELSE IF k = 1 /\ stripDelimiters(jsDocInfo.content) = <<>>
        THEN <<Comment(index + 1, "emptyJsDoc", propertyType)>>
      ELSE <<>>)
     \o (IF ~hasAccessWord(line)
           THEN <<Comment(index + 1, "missingAccessModifier", propertyType)>> ELSE <<>>)

RECURSIVE enhReactiveFrom(_, _, _)
enhReactiveFrom(lines, index, k) ==
  IF k > Len(ReactiveKinds) THEN <<>>
  ELSE (IF enhReactiveRegex(LineAt(lines, index), ReactiveKinds[k].factory,
                            ReactiveKinds[k].readonlyOk, ReactiveKinds[k].requiredOk)
          THEN enhReactiveComments(lines, index, k) ELSE <<>>)
       \o enhReactiveFrom(lines, index, k + 1)

\* The first lines.forEach: the literal detectors on the changed lines.
RECURSIVE enhDetectorPass(_, _, _)
enhDetectorPass(lines, index, changedRanges) ==
  IF index >= Len(lines) THEN <<>>
  ELSE (IF isLineChanged(index + 1, changedRanges)
          THEN detectorComments(LineAt(lines, index), index + 1) ELSE <<>>)
       \o enhDetectorPass(lines, index + 1, changedRanges)

\* The second lines.forEach: methods and properties near the changed lines.
RECURSIVE enhDeclarationPass(_, _, _)
enhDeclarationPass(lines, index, changedRanges) ==
  IF index >= Len(lines) THEN <<>>
  ELSE (IF isNearChangedLine(index + 1, changedRanges)
          THEN (IF methodRegex(LineAt(lines, index))
                  THEN cliMethodViolations(lines, index) ELSE <<>>)
               \o enhReactiveFrom(lines, index, 1)
          ELSE <<>>)
       \o enhDeclarationPass(lines, index + 1, changedRanges)

checkTypeScriptFileEnhanced(file, changedRanges) ==
  IF ~file.readable THEN <<>>
  ELSE enhDetectorPass(file.lines, 0, changedRanges)
         \o enhDeclarationPass(file.lines, 0, changedRanges)

(***************************************************************************)
(* SpecFile: the scans of one file (checkFile of the CLI, checkTypeScript- *)
(* File of both generators) and checkSingleLineJsDoc, on every file of the *)
(* bounds made of declarations and documentation lines.                    *)
(***************************************************************************)
MaxSrcLines == 3  \* length of the longest file, in lines

SrcLineTexts ==
  { <<"x">>,
    PrivateMethod,
    <<"f", "(", ")", ":", " ", "void", " ", "{", " ", "//", " ", "TODO">>,
    <<"/**", " ", "d", " ", "*/">>,
    <<"/**", " ", "*/">>,
    <<"/**">>,
    <<" ", "*/">>,
    <<"private", " ", "s", " ", "=", " ", "signal", "(", "x", ")">>,
    <<"public", " ", "readonly", " ", "s", " ", "=", " ", "computed", "(">>,
    <<"s", " ", "=", " ", "input", ".required", "<">> }

\* Files of up to MaxSrcLines lines, at most three of them other than plain
\* code (a declaration under a block of two lines).
SrcFiles ==
  {ls \in UNION {[1..n -> SrcLineTexts] : n \in 1..MaxSrcLines} :
     Cardinality({i \in 1..Len(ls) : ls[i] # <<"x">>}) <= 3}

PrScans == {"checkTypeScriptFile", "checkTypeScriptFileEnhanced"}

InitFile ==
  /\ arg \in
       {[fn |-> f, lines |-> ls, diff |-> <<>>] :
          f \in {"checkFile", "checkSingleLineJsDoc"}, ls \in SrcFiles}
       \cup {[fn |-> f, lines |-> ls, diff |-> d] :
          f \in PrScans, ls \in SrcFiles,
          \* diffs of one hunk of one or two lines
          d \in {<<HeaderLine([start |-> s, count |-> c])>> :
                   s \in 1..MaxSrcLines, c \in {Absent, 2}}}
  /\ ret = <<>>
  /\ MainIdle

CallCheckFile ==
  /\ arg.fn = "checkFile"
  /\ ret = <<>>
  /\ ret' = <<checkFile([readable |-> TRUE, lines |-> arg.lines]).violations>>
  /\ UNCHANGED <<arg, mainVars>>

CallPrScan ==
  /\ arg.fn = "checkTypeScriptFile"
  /\ ret = <<>>
  /\ ret' = <<checkTypeScriptFile([readable |-> TRUE, lines |-> arg.lines], ArgRanges)>>
  /\ UNCHANGED <<arg, mainVars>>

CallEnhancedScan ==
  /\ arg.fn = "checkTypeScriptFileEnhanced"
  /\ ret = <<>>
  /\ ret' = <<checkTypeScriptFileEnhanced([readable |-> TRUE, lines |-> arg.lines], ArgRanges)>>
  /\ UNCHANGED <<arg, mainVars>>

\* checkSingleLineJsDoc on what getJsDocInfo finds above the file's last line.
CallCheckSingleLineJsDoc ==
  /\ arg.fn = "checkSingleLineJsDoc"
  /\ ret = <<>>
  /\ ret' = <<checkSingleLineJsDoc(getJsDocInfo(arg.lines, Len(arg.lines) - 1), "Signal")>>
  /\ UNCHANGED <<arg, mainVars>>

NextFile == CallCheckFile \/ CallPrScan \/ CallEnhancedScan \/ CallCheckSingleLineJsDoc

SpecFile == InitFile /\ [][NextFile]_vars

\* The comments of the result at line n whose kind is in K, in their order.
commentsAt(n, K) == SelectSeq(ret[1], LAMBDA c : c.line = n /\ c.kind \in K)

\* Line text is a reactive property for the scan fn.
isReactiveFor(fn, text) ==
  \E k \in 1..Len(ReactiveKinds) :
    \/ fn = "checkFile"
         /\ reactiveRegex(text, ReactiveKinds[k].factory,
                          ReactiveKinds[k].readonlyOk, ReactiveKinds[k].requiredOk)
    \/ fn = "checkTypeScriptFileEnhanced"
         /\ enhReactiveRegex(text, ReactiveKinds[k].factory,
                             ReactiveKinds[k].readonlyOk, ReactiveKinds[k].requiredOk)
\* Line text is a method for the scan fn.
isMethodFor(fn, text) ==
  methodRegex(text) /\ (fn = "checkTypeScriptFile" => ~isAngularReactive(text))
\* Line n is one whose declarations the scan fn looks at.
checkedAt(fn, n) ==
  CASE fn = "checkFile" -> TRUE
    [] fn = "checkTypeScriptFile" -> isLineChanged(n, ArgRanges)
    [] OTHER -> isNearChangedLine(n, ArgRanges)

FileScans == {"checkFile"} \cup PrScans

\* C13: a reactive property with a visibility modifier and a documentation
\* block that lacks the matching visibility tag gets a visibility-tag error.
C13_VisibilityRuleOnProperties ==
  ret # <<>> /\ arg.fn \in {"checkFile", "checkTypeScriptFileEnhanced"} =>
    \A n \in 1..Len(arg.lines) :
      /\ isReactiveFor(arg.fn, arg.lines[n]) /\ checkedAt(arg.fn, n)
      /\ getAccessModifier(arg.lines[n]) # ""
      /\ getJsDocInfo(arg.lines, n - 1).exists
      /\ ~hasTag(getJsDocInfo(arg.lines, n - 1).content, "@" \o getAccessModifier(arg.lines[n]))
      => commentsAt(n, AccessMessages) # <<>>

DocKinds ==
  {"missingJsDoc", "missingReturns", "notSingleLine", "emptyJsDoc"}
    \cup AccessMessages \cup ParamKinds

\* C15: a declaration above which no block is found gets exactly one
\* missing-documentation error and no return-tag, visibility-tag,
\* parameter-tag or single-line-format error.
C15_MissingDocSkipsOtherRules ==
  ret # <<>> /\ arg.fn \in FileScans =>
    \A n \in 1..Len(arg.lines) :
      /\ isMethodFor(arg.fn, arg.lines[n]) \/ isReactiveFor(arg.fn, arg.lines[n])
      /\ checkedAt(arg.fn, n)
      /\ ~getJsDocInfo(arg.lines, n - 1).exists
      => /\ Len(commentsAt(n, DocKinds)) = 1
         /\ commentsAt(n, DocKinds)[1].kind = "missingJsDoc"

\* A scan has met a method with a visibility keyword right under a line of
\* code, and reported the missing documentation only.
C15_Witness ==
  /\ ret # <<>> /\ arg.fn \in FileScans
  /\ \E n \in 2..Len(arg.lines) :
       /\ isMethodFor(arg.fn, arg.lines[n]) /\ checkedAt(arg.fn, n)
       /\ arg.lines[n - 1] = <<"x">>
       /\ commentsAt(n, DocKinds) = <<Comment(n, "missingJsDoc", <<>>)>>
       /\ getAccessModifier(arg.lines[n]) # ""

\* The text of a one-line block between its delimiters is white space only.
innerIsBlank(text) ==
  \A i \in 1..Len(text) : text[i] \in WS \cup {"/**", "*/"}

\* C16: for an existing block, checkSingleLineJsDoc returns exactly the
\* format error when the block is multi-line, exactly the empty-description
\* error when it is single-line with blank inner text, and nothing otherwise.
C16_SingleLineFormat ==
  ret # <<>> /\ arg.fn = "checkSingleLineJsDoc"
    /\ getJsDocInfo(arg.lines, Len(arg.lines) - 1).exists =>
      LET jsDocInfo == getJsDocInfo(arg.lines, Len(arg.lines) - 1) IN
        ret[1] = IF ~jsDocInfo.isSingleLine
                   THEN <<[kind |-> "notSingleLine", name |-> "Signal"]>>
                 ELSE IF innerIsBlank(LineAt(arg.lines, jsDocInfo.startIdx))
                   THEN <<[kind |-> "emptyJsDoc", name |-> "Signal"]>>
                 ELSE <<>>

\* A one-line block without a description was judged.
C16_Witness ==
  /\ ret # <<>> /\ arg.fn = "checkSingleLineJsDoc"
  /\ getJsDocInfo(arg.lines, Len(arg.lines) - 1).isSingleLine
  /\ ret[1] = <<[kind |-> "emptyJsDoc", name |-> "Signal"]>>

\* C17: in the PR scan every method line of the near-changed window without a
\* visibility keyword gets a missing-access-modifier violation.
C17_MissingModifierFlagged ==
  ret # <<>> /\ arg.fn \in PrScans =>
    \A n \in 1..Len(arg.lines) :
      /\ isMethodFor(arg.fn, arg.lines[n])
      /\ isNearChangedLine(n, ArgRanges)
      /\ getAccessModifier(arg.lines[n]) = ""
      => commentsAt(n, {"missingAccessModifier"}) # <<>>

LiteralKinds == <<"console.log", "debugger", "TODO", "FIXME">>
LiteralKindSet == {LiteralKinds[r] : r \in 1..Len(LiteralKinds)}

kindRank(kind) ==
  IF \E r \in 1..Len(LiteralKinds) : LiteralKinds[r] = kind
    THEN CHOOSE r \in 1..Len(LiteralKinds) : LiteralKinds[r] = kind
    ELSE Len(LiteralKinds) + 1

\* C19: the violations of one file come with non-decreasing line numbers and,
\* on one line, the detectors in their order before the declaration checks.
C19_TraversalOrder ==
  ret # <<>> /\ arg.fn \in PrScans =>
    \A i \in 1..(Len(ret[1]) - 1) :
      \/ ret[1][i].line < ret[1][i + 1].line
      \/ /\ ret[1][i].line = ret[1][i + 1].line
         /\ kindRank(ret[1][i].kind) <= kindRank(ret[1][i + 1].kind)

TagKinds == {"missingReturns"} \cup AccessMessages \cup ParamKinds

\* The declaration line holds ": void".
voidDeclared(line) ==
  \E i \in 1..(Len(line) - 2) : line[i] = ":" /\ line[i + 1] = " " /\ line[i + 2] = "void"

\* The errors of each tag rule taken alone, as the scan fn applies it.
returnRuleErrors(fn, line, content) ==
  IF ~hasReturnsTag(content) /\ (fn = "checkTypeScriptFile" => ~voidDeclared(line))
    THEN <<[kind |-> "missingReturns", name |-> <<>>]>> ELSE <<>>
visibilityRuleErrors(line, content) ==
  IF checkAccessModifierTag(content, getAccessModifier(line)).valid THEN <<>>
  ELSE <<[kind |-> checkAccessModifierTag(content, getAccessModifier(line)).message,
          name |-> <<>>]>>
paramRuleErrors(line, content) == checkParamTags(content, extractParams(line)).errors

\* C27: for a method with a documentation block the tag errors reported are
\* those of the return-tag rule, of the visibility-tag rule and of the
\* parameter-tag rule, each taken alone, in this order.
C27_TagRulesIndependent ==
  ret # <<>> /\ arg.fn \in FileScans =>
    \A n \in 1..Len(arg.lines) :
      /\ isMethodFor(arg.fn, arg.lines[n]) /\ checkedAt(arg.fn, n)
      /\ getJsDocInfo(arg.lines, n - 1).exists
      => LET content == getJsDocInfo(arg.lines, n - 1).content IN
           commentsAt(n, TagKinds) =
             asComments(n, returnRuleErrors(arg.fn, arg.lines[n], content)
                             \o visibilityRuleErrors(arg.lines[n], content)
                             \o paramRuleErrors(arg.lines[n], content), 1)

\* A scan has met a private method with a parameter under a block without
\* tags, and reported the three errors.
C27_Witness ==
  /\ ret # <<>> /\ arg.fn \in FileScans
  /\ \E n \in 2..Len(arg.lines) :
       /\ isMethodFor(arg.fn, arg.lines[n]) /\ getJsDocInfo(arg.lines, n - 1).exists
       /\ commentsAt(n, TagKinds) =
            <<Comment(n, "missingReturns", <<>>), Comment(n, "missing", <<>>),
              Comment(n, "missingParam", <<"x">>)>>

\* The CLI scan's comments of the kinds K at line n of the file.
cliCommentsAt(lines, n, K) ==
  SelectSeq(checkFile([readable |-> TRUE, lines |-> lines]).violations,
            LAMBDA c : c.line = n /\ c.kind \in K)

\* C29: on a changed method line with a documentation block the PR scan
\* reports the return-tag, visibility-tag and parameter-tag errors of the CLI
\* scan, less the missing-return-tag error when the line holds ": void".
C29_ScansAgreeOnTagErrors ==
  ret # <<>> /\ arg.fn = "checkTypeScriptFile" =>
    \A n \in 1..Len(arg.lines) :
      /\ methodRegex(arg.lines[n]) /\ isLineChanged(n, ArgRanges)
      /\ getJsDocInfo(arg.lines, n - 1).exists
      => commentsAt(n, TagKinds) =
           SelectSeq(cliCommentsAt(arg.lines, n, TagKinds),
                     LAMBDA c : ~(c.kind = "missingReturns" /\ voidDeclared(arg.lines[n])))

(***************************************************************************)
(* Spec: the entry points over a list of files.  "pr" is the main loop of  *)
(* generate-pr-comments.js, "enh" the main loop of the second generator    *)
(* (src/unnamed/part_001), "cli" the files.forEach of                      *)
(* check-code-standards.js.  A file is [ext, diff, readable, lines,        *)
(* violations]: the ending of its path, the outcome of git diff on it,     *)
(* whether readFileSync succeeds, its lines, and what the Tailwind checker *)
(* reports on it.  A comment carries the index of its file as path.        *)
(***************************************************************************)
MaxFiles == 2  \* longest list of files

TsEndings == {"ts", "spec.ts", "stories.ts"}
endsWithTs(ext) == ext \in TsEndings
endsWithSpecTs(ext) == ext = "spec.ts"
endsWithStoriesTs(ext) == ext = "stories.ts"
endsWithCss(ext) == ext = "css"

FileLines == <<<<"console.log", "(", "x", ")">>, PrivateMethod>>
FileDiffs ==
  { [ok |-> FALSE, lines |-> <<>>],
    [ok |-> TRUE, lines |-> <<>>],
    [ok |-> TRUE, lines |-> <<HeaderLine([start |-> 1, count |-> Absent])>>] }

RECURSIVE withPath(_, _, _)
withPath(path, comments, i) ==
  IF i > Len(comments) THEN <<>>
  ELSE <<[path |-> path, line |-> comments[i].line, kind |-> comments[i].kind,
          name |-> comments[i].name]>> \o withPath(path, comments, i + 1)

\* The files git diff --name-only can list for the PR scan.
PrFiles ==
  {[ext |-> e, diff |-> d, readable |-> r, lines |-> FileLines, violations |-> <<>>] :
     e \in TsEndings, d \in FileDiffs, r \in BOOLEAN}
    \cup {[ext |-> "css", diff |-> d, readable |-> TRUE, lines |-> <<>>,
           violations |-> <<[line |-> 1, severity |-> "warning"]>>] : d \in FileDiffs}

\* The files the CLI scan is handed: paths ending in .ts, existing or not.
CliFiles ==
  {[ext |-> e, diff |-> [ok |-> TRUE, lines |-> <<>>], readable |-> r, lines |-> FileLines,
    violations |-> <<>>] : e \in TsEndings, r \in BOOLEAN}

Init ==
  /\ arg = <<>>
  /\ ret = <<>>
  /\ entry \in {"pr", "enh", "cli"}
  /\ files \in UNION {[1..n -> IF entry = "cli" THEN CliFiles ELSE PrFiles] : n \in 0..MaxFiles}
  /\ pc = (IF entry = "cli" THEN "cli" ELSE "ts")
  /\ fileIdx = 1
  /\ allComments = <<>>
  /\ scanned = {}
  /\ crashed = FALSE

\* if (!file.endsWith('.ts') || file.endsWith('.spec.ts') || file.endsWith('.stories.ts')) continue;
prSkipsTs(file) ==
  ~endsWithTs(file.ext) \/ endsWithSpecTs(file.ext) \/ endsWithStoriesTs(file.ext)

\* One iteration of the first loop of generate-pr-comments.js.
PrTsFile ==
  /\ entry = "pr" /\ pc = "ts" /\ fileIdx <= Len(files)
  /\ LET file == files[fileIdx]
         ranges == getChangedLineRanges(file.diff)
     IN IF prSkipsTs(file) \/ Len(ranges) = 0
          THEN UNCHANGED <<allComments, scanned>>
          ELSE /\ allComments' =
                    allComments \o withPath(fileIdx, checkTypeScriptFile(file, ranges), 1)
               /\ scanned' = scanned \cup {fileIdx}
  /\ fileIdx' = fileIdx + 1
  /\ UNCHANGED <<arg, ret, files, entry, pc, crashed>>

\* if (!file.endsWith('.ts') || file.endsWith('.spec.ts')) continue;
enhSkipsTs(file) == ~endsWithTs(file.ext) \/ endsWithSpecTs(file.ext)

\* One iteration of the first loop of the second generator.
EnhTsFile ==
  /\ entry = "enh" /\ pc = "ts" /\ fileIdx <= Len(files)
  /\ LET file == files[fileIdx]
         ranges == getChangedLineRanges(file.diff)
     IN IF enhSkipsTs(file) \/ Len(ranges) = 0
          THEN UNCHANGED <<allComments, scanned>>
          ELSE /\ allComments' =
                    allComments \o withPath(fileIdx, checkTypeScriptFileEnhanced(file, ranges), 1)
               /\ scanned' = scanned \cup {fileIdx}
  /\ fileIdx' = fileIdx + 1
  /\ UNCHANGED <<arg, ret, files, entry, pc, crashed>>

\* The first loop is over: the second one starts.
PrTsEnd ==
  /\ pc = "ts" /\ fileIdx > Len(files)
  /\ pc' = "css" /\ fileIdx' = 1
  /\ UNCHANGED <<arg, ret, files, entry, allComments, scanned, crashed>>

\* One iteration of the second loop of a generator.
PrCssFile ==
  /\ pc = "css" /\ fileIdx <= Len(files)
  /\ LET file == files[fileIdx]
         ranges == getChangedLineRanges(file.diff)
     IN IF ~endsWithCss(file.ext) \/ Len(ranges) = 0
          THEN UNCHANGED <<allComments, scanned>>
          ELSE /\ allComments' =
                    allComments \o withPath(fileIdx, checkCSSFile(file.violations, ranges, 1), 1)
               /\ scanned' = scanned \cup {fileIdx}
  /\ fileIdx' = fileIdx + 1
  /\ UNCHANGED <<arg, ret, files, entry, pc, crashed>>

\* console.log(JSON.stringify(allComments)); process.exit(0)
PrOutput ==
  /\ pc = "css" /\ fileIdx > Len(files)
  /\ pc' = "done"
  /\ UNCHANGED <<arg, ret, files, entry, fileIdx, allComments, scanned, crashed>>

\* One call of the callback of files.forEach in check-code-standards.js: an
\* exception of checkFile leaves the loop and ends the process.
CliFile ==
  /\ pc = "cli" /\ fileIdx <= Len(files)
  /\ LET result == checkFile(files[fileIdx]) IN
       IF result.threw
         THEN /\ crashed' = TRUE /\ pc' = "crashed"
              /\ UNCHANGED <<fileIdx, allComments, scanned>>
         ELSE /\ allComments' = allComments \o withPath(fileIdx, result.violations, 1)
              /\ scanned' = scanned \cup {fileIdx}
              /\ fileIdx' = fileIdx + 1
              /\ UNCHANGED <<pc, crashed>>
  /\ UNCHANGED <<arg, ret, files, entry>>

\* The summary after the loop and the end of the process.
CliExit ==
  /\ pc = "cli" /\ fileIdx > Len(files)
  /\ pc' = "done"
  /\ UNCHANGED <<arg, ret, files, entry, fileIdx, allComments, scanned, crashed>>

Next == PrTsFile \/ EnhTsFile \/ PrTsEnd \/ PrCssFile \/ PrOutput \/ CliFile \/ CliExit

Spec == Init /\ [][Next]_vars

Ended == pc \in {"done", "crashed"}
CommentsOf(path) == SelectSeq(allComments, LAMBDA c : c.path = path)
\* The ranges the PR scan works with for file i.
RangesOf(i) == getChangedLineRanges(files[i].diff)
\* The files the PR scan has to scan: TypeScript or CSS, with changed lines.
PrSelected(i) ==
  /\ Len(RangesOf(i)) > 0
  /\ ~prSkipsTs(files[i]) \/ endsWithCss(files[i].ext)

\* C6: in the PR scan a file whose diff cannot be obtained raises nothing and
\* contributes no violation, and every later file of the list that has changed
\* lines is scanned, its violations being in the output.
C6_DiffFailureSkipsOnlyThatFile ==
  entry = "pr" =>
    /\ ~crashed
    /\ pc = "done" =>
         \A i \in 1..Len(files) :
           ~files[i].diff.ok =>
             /\ CommentsOf(i) = <<>>
             /\ \A k \in (i + 1)..Len(files) :
                  PrSelected(k) =>
                    /\ k \in scanned
                    /\ CommentsOf(k) =
                         withPath(k, IF endsWithCss(files[k].ext)
                                       THEN checkCSSFile(files[k].violations, RangesOf(k), 1)
                                       ELSE checkTypeScriptFile(files[k], RangesOf(k)), 1)

\* The PR scan has ended on a list whose first file has no diff and whose
\* second file contributed violations.
C6_Witness ==
  /\ entry = "pr" /\ pc = "done" /\ Len(files) = 2
  /\ ~files[1].diff.ok /\ files[1].ext = "ts" /\ files[1].readable
  /\ files[2].ext = "ts" /\ CommentsOf(2) # <<>>

\* The files an entry point has to check.
Selected(i) ==
  CASE entry = "cli" -> TRUE
    [] entry = "enh" ->
         Len(RangesOf(i)) > 0 /\ (~enhSkipsTs(files[i]) \/ endsWithCss(files[i].ext))
    [] OTHER -> PrSelected(i)

\* C7: in both entry points an unreadable file ends nothing: it contributes no
\* violation and every other file of the list is still checked.
C7_UnreadableFileIsIsolated ==
  /\ ~crashed
  /\ Ended =>
       \A i \in 1..Len(files) :
         ~files[i].readable =>
           /\ CommentsOf(i) = <<>>
           /\ \A k \in 1..Len(files) : k # i /\ Selected(k) /\ files[k].readable => k \in scanned

(***************************************************************************)
(* Claims on the list of files of an entry point.                          *)
(***************************************************************************)
\* C22: no entry point emits a violation for a file whose path ends in
\* .spec.ts or .stories.ts, and none scans such a file.
C22_TestAndStoryFilesSkipped ==
  entry \in {"pr", "enh", "cli"} =>
    \A i \in 1..Len(files) :
      endsWithSpecTs(files[i].ext) \/ endsWithStoriesTs(files[i].ext) =>
        CommentsOf(i) = <<>> /\ i \notin scanned

(***************************************************************************)
(* SpecPost: postReview (post-pr-review.js).  arg holds what the run       *)
(* meets: the state of violations.json and whether each GitHub call fails; *)
(* allComments is the variable comments, ret the calls made so far.        *)
(***************************************************************************)
MaxViolations == 32  \* most violations in violations.json
ReviewLimit == 30    \* reviewComments.slice(0, 30)

\* A violation as generate-pr-comments.js prints it; bodies differ by line.
Violation(n) == [path |-> "a.ts", line |-> n, body |-> n]

InitPost ==
  /\ arg \in {[fn |-> "postReview", content |-> c, violations |-> v,
               reviewFails |-> rf, commentFails |-> cf] :
                \* violations.json: the printed array (log lines around it or
                \* not), a text without an array, an array that JSON.parse
                \* rejects, or no readable file
                c \in {"json", "nomatch", "invalid", "unreadable"},
                \* lists with ascending or descending line numbers
                v \in UNION {{[i \in 1..n |-> Violation(i)],
                              [i \in 1..n |-> Violation(n + 1 - i)]} : n \in 0..MaxViolations},
                rf \in BOOLEAN, cf \in BOOLEAN}
  /\ ret = <<>>
  /\ files = <<>>
  /\ entry = "post"
  /\ pc = "read"
  /\ fileIdx = 0
  /\ allComments = <<>>
  /\ scanned = {}
  /\ crashed = FALSE

\* comments.map(c => ({ path: c.path, line: c.line, side: 'RIGHT', body: c.body }))
reviewComments(comments) ==
  [i \in 1..Len(comments) |->
     [path |-> comments[i].path, line |-> comments[i].line, side |-> "RIGHT",
      body |-> comments[i].body]]

sliceToInclusive(seq, n) == SubSeq(seq, 1, Min(n + 1, Len(seq)))

\* seq.slice(0, n)
sliceTo(seq, n) == SubSeq(seq, 1, Min(n, Len(seq)))

\* The try block that reads and parses violations.json, and the test of
\* comments.length that follows.
ReadViolations ==
  /\ pc = "read"
  /\ allComments' = (IF arg.content = "json" THEN arg.violations ELSE <<>>)
  /\ pc' = (IF Len(allComments') > 0 THEN "review" ELSE "done")
  /\ UNCHANGED <<arg, ret, files, entry, fileIdx, scanned, crashed>>

\* await github.rest.pulls.createReview(...), and the catch when it rejects.
CreateReview ==
  /\ pc = "review"
  /\ ret' = Append(ret, [api |-> "createReview",
                         comments |-> sliceTo(reviewComments(allComments), ReviewLimit),
                         ok |-> ~arg.reviewFails])
  /\ pc' = (IF arg.reviewFails THEN "fallback" ELSE "done")
  /\ UNCHANGED <<arg, files, entry, fileIdx, allComments, scanned, crashed>>

\* await github.rest.issues.createComment(...) inside the catch: a rejection
\* leaves postReview.
CreateComment ==
  /\ pc = "fallback"
  /\ ret' = Append(ret, [api |-> "createComment", comments |-> <<>>,
                         ok |-> ~arg.commentFails])
  /\ pc' = (IF arg.commentFails THEN "raised" ELSE "done")
  /\ crashed' = arg.commentFails
  /\ UNCHANGED <<arg, files, entry, fileIdx, allComments, scanned>>

NextPost == ReadViolations \/ CreateReview \/ CreateComment

SpecPost == InitPost /\ [][NextPost]_vars

\* The reviews submitted so far.
Reviews == SelectSeq(ret, LAMBDA call : call.api = "createReview")

\* C20: a review holds the first min(n, 30) of the n parsed violations, in
\* their order, each with its path, line and body.
C20_ReviewHoldsFirstThirty ==
  entry = "post" /\ pc \notin {"read", "review"} /\ Len(allComments) > 0 =>
    /\ Len(Reviews) = 1
    /\ Len(Reviews[1].comments) =
         (IF Len(allComments) < ReviewLimit THEN Len(allComments) ELSE ReviewLimit)
    /\ \A i \in 1..Len(Reviews[1].comments) :
         /\ Reviews[1].comments[i].path = arg.violations[i].path
         /\ Reviews[1].comments[i].line = arg.violations[i].line
         /\ Reviews[1].comments[i].body = arg.violations[i].body

\* A review was submitted for more than 30 violations in descending order.
C20_Witness ==
  /\ entry = "post" /\ pc = "done"
  /\ Len(allComments) > ReviewLimit /\ allComments[1].line > 1
  /\ Len(Reviews) = 1 /\ Len(Reviews[1].comments) = ReviewLimit

\* The summary comments posted so far.
Summaries == SelectSeq(ret, LAMBDA call : call.api = "createComment")

\* C21: with violations, a failed review is followed by exactly one summary
\* comment and postReview ends without raising, also when that post fails; a
\* review that succeeds is followed by no summary; without violations no
\* call is made.
C21_FallbackNeverRaises ==
  entry = "post" =>
    /\ pc # "raised" /\ ~crashed
    /\ pc = "done" =>
         /\ Len(allComments) > 0 /\ arg.reviewFails => Len(Summaries) = 1
         /\ Len(allComments) > 0 /\ ~arg.reviewFails => Len(Summaries) = 0
         /\ Len(allComments) = 0 => ret = <<>>

====
